---- MODULE Spec2Model ----
(***************************************************************************)
(* ReplySight: the agent workflow of src/backend/graph.py                  *)
(* (ReplySightAgent), the retrieval adapters and the composer of           *)
(* src/backend/tools.py, as a state machine.                               *)
(*                                                                         *)
(* One behaviour of Spec is one generate_response run on a fresh thread.   *)
(* One action is one node of the compiled graph together with the          *)
(* conditional edge registered for it (the framework evaluates the router  *)
(* in the same superstep as the node).                                     *)
(*                                                                         *)
(* The messages channel is kept as the observations the code makes of the  *)
(* list (its length, any(SystemMessage), messages[-1] and the first hit of *)
(* each reversed scan).  Concatenation of lists is Cat on these summaries, *)
(* so every list expression of the source is translated term by term.      *)
(*                                                                         *)
(* Numbers: a score s is kept as the integer 1000 * s.                     *)
(***************************************************************************)
EXTENDS Integers, Sequences, FiniteSets, TLC

\* ------------------------------------------------------------------ bounds
MaxToolCalls == 2      \* tool calls carried by one assistant turn
MaxScoreLen == 3       \* characters of the evaluator's output
LenCap == 12           \* len(messages) is kept exactly below LenCap
MaxCount == 8          \* iteration_count values handed to route_action on its own
MaxStart == 2          \* latest start of a run, in ticks
MaxRuns == 2           \* generate_response calls served by one engine

\* --------------------------------------------------------- program constants
TicksPerSecond == 2            \* resolution of the clock: int(start_time) drops the fraction
RecursionLimit == 25          \* superstep budget of one ainvoke (no recursion_limit in config)
MaxMessages == 10             \* should_continue: len(messages) > 10
MaxIterations == 4            \* route_action: iteration_count >= 4
HelpfulThreshold == 700       \* should_continue: helpfulness_score >= 0.7
DefaultScore == 500           \* check_helpfulness: 0.5 on parse failure or error
NoCandidateScore == 0         \* check_helpfulness: 0.0 when nothing to evaluate
ScoreMin == 0                 \* clamp lower end 0.0
ScoreMax == 1000              \* clamp upper end 1.0
CitationsPerSource == 2       \* composer: [:2]
MaxResults == 3               \* TavilyExamplesTool._arun: 'max_results': 3

ArxivName == "arxiv_insights"
TavilyName == "tavily_examples"
ToolNames == {ArxivName, TavilyName}      \* self.research_tools, bound to the model

FallbackReply == "I sincerely apologize for the inconvenience you've experienced."
ArxivCitation == "Smith, J. et al. (2023). arXiv:2023.12345"

\* -------------------------------------------------------------- dictionaries
\* A Python dict of the workflow (a tool result, insights, examples): its keys,
\* the list under 'papers' (the citation of each paper), the list under
\* 'examples' (the url of each result, "" when it has none) and what is stored
\* under the *_raw_response key ("" when absent).
EmptyDict == [keys |-> {}, papers |-> <<>>, examples |-> <<>>, raw |-> ""]

\* d = other: the mapping replaced by the new result
Update_Replace(d, other) ==
    [keys |-> other.keys, papers |-> other.papers, examples |-> other.examples, raw |-> d.raw]

\* dict.update(other)
Update(d, other) ==
    [keys |-> d.keys \cup other.keys,
     papers |-> IF "papers" \in other.keys THEN other.papers ELSE d.papers,
     examples |-> IF "examples" \in other.keys THEN other.examples ELSE d.examples,
     raw |-> d.raw]

\* The content of a message.  kind "text": a plain string (text).  kind "json":
\* json.dumps of a dict that is also a Python literal.  kind "json_lit": json.dumps
\* of a dict holding null, true or false.  kind "error_text": the "Error: ..."
\* string a ToolNode writes for a call it could not run.
Text(t) == [kind |-> "text", text |-> t, dict |-> EmptyDict]
Json(d) == [kind |-> "json", text |-> "", dict |-> d]
JsonLit(d) == [kind |-> "json_lit", text |-> "", dict |-> EmptyDict]
ErrorText == [kind |-> "error_text", text |-> "Error", dict |-> EmptyDict]

\* ------------------------------------------------------------------ messages
\* One message: its class, whether the object has a tool_calls attribute,
\* the tool calls it carries (names, in order), its content and its name.
NoMsg == [type |-> "none", attr |-> FALSE, tool_calls |-> <<>>, content |-> Text(""), name |-> ""]
SystemMessage ==
    [type |-> "system", attr |-> FALSE, tool_calls |-> <<>>, content |-> Text("prompt"), name |-> ""]
AIMessage(attr, calls, text) ==
    [type |-> "ai", attr |-> attr, tool_calls |-> calls, content |-> Text(text), name |-> ""]
ToolMessage(name, content) ==
    [type |-> "tool", attr |-> FALSE, tool_calls |-> <<>>, content |-> content, name |-> name]

\* isinstance(msg, AIMessage) and not hasattr(msg, 'tool_calls')
IsCandidate(m) == m.type = "ai" /\ ~m.attr

\* The empty list, a one-element list and list concatenation, on summaries.
\*   len       len(messages); LenCap stands for LenCap or more (the code
\*             compares the length with 0 and with MaxMessages only)
\*   hasSystem any(isinstance(msg, SystemMessage) for msg in messages)
\*   first     messages[0] (its class and tool calls only)
\*   last      messages[-1] (an assistant turn as it is, any other message
\*             with its class only)
\*   cand      first hit of the reversed scan for IsCandidate
\*   arxiv     first hit of the reversed scan for ToolMessage named arxiv_insights
\*   tavily    first hit of the reversed scan for ToolMessage named tavily_examples
Empty ==
    [len |-> 0, hasSystem |-> FALSE, first |-> NoMsg, last |-> NoMsg, cand |-> NoMsg,
     arxiv |-> NoMsg, tavily |-> NoMsg]

One(m) ==
    [len |-> 1,
     hasSystem |-> (m.type = "system"),
     first |-> [m EXCEPT !.content = Text("")],
     last |-> IF m.type = "ai" THEN m ELSE [m EXCEPT !.content = Text("")],
     cand |-> IF IsCandidate(m) THEN m ELSE NoMsg,
     arxiv |-> IF m.type = "tool" /\ m.name = ArxivName THEN m ELSE NoMsg,
     tavily |-> IF m.type = "tool" /\ m.name = TavilyName THEN m ELSE NoMsg]

Later(a, b) == IF b.type # "none" THEN b ELSE a

Cat(a, b) ==
    [len |-> IF a.len + b.len < LenCap THEN a.len + b.len ELSE LenCap,
     hasSystem |-> (a.hasSystem \/ b.hasSystem),
     first |-> Later(b.first, a.first),
     last |-> Later(a.last, b.last),
     cand |-> Later(a.cand, b.cand),
     arxiv |-> Later(a.arxiv, b.arxiv),
     tavily |-> Later(a.tavily, b.tavily)]

\* A channel without a reducer: what a node returns replaces the list.
LastValue(old, update) == update

\* messages: Annotated[List[Any], operator.add]: the channel adds what a node
\* returns under "messages" to the list it already holds.
AddReducer(old, update) == Cat(old, update)

\* ------------------------------------------------------------------ adapters
\* What the upstream service does with one request.
\*   kind "network_error"  the connection fails (aiohttp raises)
\*   kind "ok"             HTTP 200 with a well-formed body
\*   kind "malformed"      HTTP 200 with a body that is not what the API documents
\*   kind "rejected"       a non-200 status (the credential is rejected)
\* entry: the arXiv body contains 'entry'.  results: the urls of Tavily's
\* 'results'.  literal: the body holds null, true or false.
Upstream(kind, entry, results, literal) ==
    [kind |-> kind, entry |-> entry, results |-> results, literal |-> literal]

\* The upstream outcomes a run meets: one of each kind the adapters tell apart.
ArxivUpstreams ==
    {Upstream("network_error", FALSE, <<>>, FALSE), Upstream("ok", TRUE, <<>>, FALSE),
     Upstream("malformed", FALSE, <<>>, FALSE)}
TavilyUpstreams ==
    {Upstream("network_error", FALSE, <<>>, FALSE), Upstream("rejected", FALSE, <<>>, FALSE),
     Upstream("malformed", FALSE, <<>>, FALSE),
     Upstream("ok", FALSE, <<"https://example.com/a">>, FALSE),
     Upstream("ok", FALSE, <<>>, TRUE)}

\* What a call gives its caller: it raises, or it returns a dict.
Raised == [raised |-> TRUE, dict |-> EmptyDict, literal |-> FALSE]
Returned(d, literal) == [raised |-> FALSE, dict |-> d, literal |-> literal]

\* ArxivInsightsTool._arun: no status check and no exception handler; the body
\* is only searched for 'entry'.
ArxivInsightsTool_arun(up) ==
    IF up.kind = "network_error" THEN Raised
    ELSE Returned([keys |-> {"papers", "query", "source"},
                   papers |-> IF up.entry THEN <<ArxivCitation>> ELSE <<>>,
                   examples |-> <<>>, raw |-> ""], FALSE)

\* TavilyExamplesTool._arun
TavilyExamplesTool_arun(api_key, up) ==
    IF api_key = "" THEN Returned([EmptyDict EXCEPT !.keys = {"error"}], FALSE)
    ELSE IF up.kind = "network_error" THEN Raised
    ELSE IF up.kind = "rejected" THEN Returned([EmptyDict EXCEPT !.keys = {"error"}], FALSE)
    ELSE IF up.kind = "malformed" THEN Raised
    ELSE Returned([keys |-> {"examples", "query", "source"}, papers |-> <<>>,
                   examples |-> up.results, raw |-> ""], up.literal)

\* ----------------------------------------------------------------- evaluator
\* The evaluator's output is a string over Chars.
Digits == {"0", "1", "7"}
Chars == Digits \cup {".", "x"}
ScoreTexts == UNION {[1..n -> Chars] : n \in 0..MaxScoreLen}
DigitVal(c) == IF c = "0" THEN 0 ELSE IF c = "1" THEN 1 ELSE 7

Pow10(n) == IF n = 0 THEN 1 ELSE IF n = 1 THEN 10 ELSE IF n = 2 THEN 100 ELSE 1000

\* End of the run of digits of t that starts at i (i - 1 when t[i] is no digit).
RECURSIVE DigitsEnd(_, _)
DigitsEnd(t, i) ==
    IF i <= Len(t) /\ t[i] \in Digits THEN DigitsEnd(t, i + 1) ELSE i - 1

\* int(t[i..j])
RECURSIVE IntOf(_, _, _)
IntOf(t, i, j) == IF j < i THEN 0 ELSE 10 * IntOf(t, i, j - 1) + DigitVal(t[j])

\* re.search(r'(\d+\.?\d*)', t): 0 when there is no match, else the position of
\* the match; the match runs from the first digit over the digits, an optional
\* '.', and the digits after it.
MatchStart(t) ==
    IF \E i \in 1..Len(t) : t[i] \in Digits
    THEN CHOOSE i \in 1..Len(t) : t[i] \in Digits /\ \A k \in 1..(i - 1) : t[k] \notin Digits
    ELSE 0

\* 1000 * float(match)
MatchValue(t) ==
    LET i == MatchStart(t)
        j == DigitsEnd(t, i)
        dot == j + 1 <= Len(t) /\ t[j + 1] = "."
        k == IF dot THEN DigitsEnd(t, j + 2) ELSE j
        n == IF dot THEN k - (j + 1) ELSE 0
    IN  1000 * IntOf(t, i, j) + (IF n > 0 THEN (IntOf(t, j + 2, k) * 1000) \div Pow10(n) ELSE 0)

Min(a, b) == IF a < b THEN a ELSE b
Max(a, b) == IF a > b THEN a ELSE b

\* Clamp with the upper end forgotten: max(score, 0.0)
ClampLowerOnly(score) == Max(score, ScoreMin)

\* min(max(score, 0.0), 1.0)
Clamp(score) == Min(Max(score, ScoreMin), ScoreMax)

\* The try block of check_helpfulness.  out: what helpfulness_checker.ainvoke
\* did: it raised, or it returned the text out.text.
EvalRaised == [raised |-> TRUE, text |-> <<>>]
EvalReturned(t) == [raised |-> FALSE, text |-> t]
EvalOutcomes == {EvalRaised} \cup {EvalReturned(t) : t \in ScoreTexts}
ParseScore(out) ==
    IF out.raised THEN DefaultScore
    ELSE IF MatchStart(out.text) # 0 THEN Clamp(MatchValue(out.text))
    ELSE DefaultScore

\* check_helpfulness(state)
check_helpfulness(messages, out) ==
    IF messages.cand.type = "none" THEN NoCandidateScore ELSE ParseScore(out)

\* ------------------------------------------------------------------ composer
\* seq[:n]
Take(seq, n) == SubSeq(seq, 1, Min(n, Len(seq)))

\* [c for c in citations if c]
RECURSIVE NonEmpty(_)
NonEmpty(seq) ==
    IF seq = <<>> THEN <<>>
    ELSE IF Head(seq) = "" THEN NonEmpty(Tail(seq))
    ELSE <<Head(seq)>> \o NonEmpty(Tail(seq))

\* What chain.invoke did: it raised, or returned a string whose strip() is text.
ComposerOutcomes == {[raised |-> TRUE, text |-> ""],
                     [raised |-> FALSE, text |-> "composed reply"],
                     [raised |-> FALSE, text |-> ""]}

\* The composer without its exception handler's template: the failed
\* invocation leaves no text.
ResponseComposerTool_run_NoTemplate(complaint, insights, examples, out) ==
    [response |-> out.text, citations |-> <<>>, sentiment |-> "fallback"]

\* ResponseComposerTool._run.  On failure the name citations is not bound yet
\* (it is assigned after chain.invoke), so the fallback carries [].
ResponseComposerTool_run(complaint, insights, examples, out) ==
    IF out.raised
    THEN [response |-> FallbackReply, citations |-> <<>>, sentiment |-> "fallback"]
    ELSE [response |-> out.text,
          citations |-> NonEmpty(
              (IF insights.papers # <<>> THEN Take(insights.papers, CitationsPerSource) ELSE <<>>)
              \o (IF examples.examples # <<>> THEN Take(examples.examples, CitationsPerSource)
                  ELSE <<>>)),
          sentiment |-> "ai_generated"]

\* --------------------------------------------------------------------- state
VARIABLES
    messages,           \* AgentState.messages (summary, see above)
    complaint,          \* AgentState.complaint
    insights,           \* AgentState.insights
    examples,           \* AgentState.examples
    response,           \* AgentState.response
    citations,          \* AgentState.citations
    iteration_count,    \* AgentState.iteration_count
    decision,           \* AgentState.decision
    arxiv_complete,     \* AgentState.arxiv_complete
    tavily_complete,    \* AgentState.tavily_complete
    helpfulness_score,  \* AgentState.helpfulness_score
    pc,                 \* the node to run next, or "END"
    steps,              \* supersteps taken by this ainvoke
    status,             \* "running", "returned" or "raised": generate_response as its caller sees it
    error,              \* what was raised ("" when nothing)
    result,             \* the dict generate_response returned
    failed,             \* the retrieval adapters whose call raised in this run
    visit,              \* the evaluator invocations of the current should_continue visit
    composed,           \* what chain.invoke did in the latest compose_response
    start_time,         \* time.time() at the start of this run, in ticks
    saver,              \* MemorySaver: the checkpoint kept under each thread_id
    run,                \* how many generate_response calls this engine has started
    tavily_api_key,     \* the key the engine was constructed with ("" for None)
    last_gate           \* the latest visit to should_continue in this run, and what ran since

vars == <<messages, complaint, insights, examples, response, citations, iteration_count,
          decision, arxiv_complete, tavily_complete, helpfulness_score,
          pc, steps, status, error, result, failed, visit, composed, start_time, saver, run,
          tavily_api_key, last_gate>>

channels == <<messages, complaint, insights, examples, response, citations, iteration_count,
              decision, arxiv_complete, tavily_complete, helpfulness_score>>

Complaint == "The right earbud stopped charging after one week."
ApiKeys == {"", "tvly-key"}

\* ReplySightAgent.__init__: TavilyExamplesTool(api_key=tavily_api_key or "placeholder")
EngineApiKey(key) == IF key # "" THEN key ELSE "placeholder"

\* Where the source relies on the framework without fixing what it does, the
\* model takes either outcome:
\*   a node whose result is not a mapping (route_action, should_continue): the
\*   framework rejects it (InvalidUpdateError), or writes nothing for it;
\*   a tool that raises inside a ToolNode: the node turns the exception into an
\*   "Error: ..." ToolMessage, or the exception leaves the node.

\* The clock: start_time counts ticks of 1/TicksPerSecond second up to
\* MaxStart; "thread_id": f"complaint_{int(start_time)}" keeps the whole seconds.
StartTimes == 0..MaxStart
thread_id(t) == t \div TicksPerSecond
ThreadIds == {thread_id(t) : t \in StartTimes}

\* MemorySaver(): one checkpoint per thread_id, written after the input and
\* after every superstep of a run on that thread; nothing removes it.  Of a
\* checkpoint only the messages outlive the next input on the thread: every
\* other channel is overwritten by initial_state.
NoCheckpoint == [exists |-> FALSE, messages |-> Empty]
EmptySaver == [t \in ThreadIds |-> NoCheckpoint]
Put(storage, t, msgs) == [storage EXCEPT ![t] = [exists |-> TRUE, messages |-> msgs]]
\* What the run has done at the gate: the length of the history at its latest
\* visit to should_continue, and whether the node agent has run since then.
NoGate == [visited |-> FALSE, len |-> 0, agent |-> FALSE]
Traced ==
    last_gate' = CASE pc = "agent" -> [last_gate EXCEPT !.agent = TRUE]
                   [] pc = "should_continue" ->
                         [visited |-> TRUE, len |-> messages.len, agent |-> FALSE]
                   [] OTHER -> last_gate

Checkpointed ==
    /\ start_time' = start_time
    /\ run' = run
    /\ tavily_api_key' = tavily_api_key
    /\ Traced
    /\ saver' = Put(saver, thread_id(start_time), messages')

NoResult == [reply |-> "", citations |-> <<>>, iterations |-> 0, helpfulness_score |-> 0,
             message_count |-> 0, decision_reason |-> ""]
NoVisit == [scores |-> <<>>, last |-> EvalReturned(<<>>), verdict |-> ""]

\* ReplySightAgent.__init__ and the initial_state of generate_response
Init ==
    /\ messages = AddReducer(Empty, Empty)
    /\ complaint = Complaint
    /\ insights = EmptyDict
    /\ examples = EmptyDict
    /\ response = ""
    /\ citations = <<>>
    /\ iteration_count = 0
    /\ decision = "start"
    /\ arxiv_complete = FALSE
    /\ tavily_complete = FALSE
    /\ helpfulness_score = 0
    /\ pc = "agent"
    /\ steps = 0
    /\ status = "running"
    /\ error = ""
    /\ result = NoResult
    /\ failed = {}
    /\ visit = NoVisit
    /\ composed = "none"
    /\ start_time = 0
    /\ saver = Put(EmptySaver, thread_id(0), messages)
    /\ run = 1
    /\ tavily_api_key = "tvly-key"
    /\ last_gate = NoGate

Running(node) == status = "running" /\ pc = node /\ steps < RecursionLimit

\* The run ends with an exception that generate_response does not catch.
Raise(what) ==
    /\ status' = "raised"
    /\ error' = what
    /\ UNCHANGED <<channels, pc, steps, result, visit, composed, start_time, saver, run,
                  tavily_api_key, last_gate>>

\* ---------------------------------------------------------------- node: agent
\* What self.llm.invoke(messages) did: it raised, or returned an assistant
\* message.  The content of a turn that carries tool calls is read nowhere.
\* A turn requests each tool at most once.
CallSeqs == {c \in UNION {[1..n -> ToolNames] : n \in 1..MaxToolCalls} :
                \A i, j \in 1..Len(c) : c[i] = c[j] => i = j}
Replies == {"", "I am sorry to hear that; a replacement is on its way."}
DecisionMessages ==
    {AIMessage(FALSE, <<>>, t) : t \in Replies} \cup
    {AIMessage(TRUE, <<>>, t) : t \in Replies} \cup
    {AIMessage(TRUE, c, "") : c \in CallSeqs}

\* The first tool call whose name is one of the two routed names, "" if none.
RECURSIVE FirstRouted(_)
FirstRouted(calls) ==
    IF calls = <<>> THEN ""
    ELSE IF Head(calls) = ArxivName THEN "arxiv_tools"
    ELSE IF Head(calls) = TavilyName THEN "tavily_tools"
    ELSE FirstRouted(Tail(calls))

\* tool_call_or_helpful with the last requested tool winning
tool_call_or_helpful_Last(msgs) ==
    LET calls == msgs.last.tool_calls
    IN  IF msgs.last.type # "none" /\ msgs.last.attr /\ calls # <<>>
        THEN FirstRouted(<<calls[Len(calls)]>>)
        ELSE "action"

\* tool_call_or_helpful(state)
tool_call_or_helpful(msgs) ==
    LET last_message == msgs.last
    IN  IF last_message.type # "none" /\ last_message.attr /\ last_message.tool_calls # <<>>
           /\ FirstRouted(last_message.tool_calls) # ""
        THEN FirstRouted(last_message.tool_calls)
        ELSE "action"

\* call_model returning no message
call_model_Silent(msgs, llm_response) == Empty

\* call_model(state): the list it returns under "messages"
call_model(msgs, llm_response) ==
    LET withSystem == IF msgs.len = 0 \/ ~msgs.hasSystem
                      THEN Cat(One(SystemMessage), msgs) ELSE msgs
    IN  Cat(withSystem, One(llm_response))

\* The node "agent" with the decision model answering with one of `turns`.
AgentStepOn(turns) ==
    /\ Running("agent")
    /\ \/ /\ Raise("decision_model")
          /\ UNCHANGED failed
       \/ \E llm_response \in turns :
             /\ messages' = AddReducer(messages, call_model(messages, llm_response))
             /\ pc' = tool_call_or_helpful(messages')
             /\ steps' = steps + 1
             /\ visit' = NoVisit
             /\ UNCHANGED <<complaint, insights, examples, response, citations,
                            iteration_count, decision, arxiv_complete, tavily_complete,
                            helpfulness_score, status, error, result,
                            failed, composed>>
             /\ Checkpointed

AgentStep == AgentStepOn(DecisionMessages)

\* ------------------------------------------- nodes: arxiv_tools, tavily_tools
\* The ToolMessage a ToolNode holding `tool` writes for one tool call: a call
\* to another name is answered with an error text under that name.
ToolOutput(tool, name, r) ==
    IF name # tool THEN ToolMessage(name, ErrorText)
    ELSE IF r.raised THEN ToolMessage(name, ErrorText)
    ELSE ToolMessage(name, IF r.literal THEN JsonLit(r.dict) ELSE Json(r.dict))

\* {"messages": [one ToolMessage per tool call of the last assistant turn]}
RECURSIVE ToolNode(_, _, _)
ToolNode(tool, calls, results) ==
    IF calls = <<>> THEN Empty
    ELSE Cat(One(ToolOutput(tool, Head(calls), Head(results))),
             ToolNode(tool, Tail(calls), Tail(results)))

ToolStep(node, tool, results, next) ==
    LET calls == messages.last.tool_calls
        raisedAny == \E i \in 1..Len(calls) : calls[i] = tool /\ results[i].raised
    IN  /\ Running(node)
        /\ failed' = IF raisedAny THEN failed \cup {tool} ELSE failed
        /\ \/ raisedAny /\ Raise("tool_error")
           \/   /\ messages' = AddReducer(messages, ToolNode(tool, calls, results))
                /\ pc' = next
                /\ steps' = steps + 1
                /\ UNCHANGED <<complaint, insights, examples, response, citations,
                               iteration_count, decision, arxiv_complete, tavily_complete,
                               helpfulness_score, status, error,
                               result, visit, composed>>
                /\ Checkpointed

\* One upstream outcome per call of this node's tool (the others reach no tool).
\* The engine's key is never empty, whatever key it was constructed with.
NoUpstream == Upstream("none", FALSE, <<>>, FALSE)
UpstreamsFor(tool, calls, all) ==
    {ups \in [1..Len(calls) -> all \cup {NoUpstream}] :
        \A i \in 1..Len(calls) : calls[i] # tool <=> ups[i] = NoUpstream}

ArxivToolsStep ==
    \E ups \in UpstreamsFor(ArxivName, messages.last.tool_calls, ArxivUpstreams) :
        ToolStep("arxiv_tools", ArxivName,
                 [i \in 1..Len(messages.last.tool_calls) |-> ArxivInsightsTool_arun(ups[i])],
                 "extract_arxiv")

TavilyToolsStep ==
    \E ups \in UpstreamsFor(TavilyName, messages.last.tool_calls, TavilyUpstreams) :
        ToolStep("tavily_tools", TavilyName,
                 [i \in 1..Len(messages.last.tool_calls) |->
                      TavilyExamplesTool_arun(EngineApiKey(tavily_api_key), ups[i])],
                 "extract_tavily")

\* --------------------------------------- nodes: extract_arxiv, extract_tavily
\* The loop body of extract_*_results on the newest ToolMessage of that name:
\* eval(message.content) succeeds on a Python literal only.
\* The loop body with a result that is no Python literal dropped
Extracted_PayloadOnly(d, message, processed_key, raw_key) ==
    IF message.type = "none" THEN d
    ELSE IF message.content.kind = "json"
    THEN [Update(d, message.content.dict) EXCEPT !.keys = @ \cup {processed_key}]
    ELSE d

Extracted(d, message, processed_key, raw_key) ==
    IF message.type = "none" THEN d
    ELSE IF message.content.kind = "json"
    THEN [Update(d, message.content.dict) EXCEPT !.keys = @ \cup {processed_key}]
    ELSE [d EXCEPT !.keys = @ \cup {raw_key, processed_key}, !.raw = message.content.kind]

\* extract_arxiv_results counting the cycle without setting its flag
extract_arxiv_results_NoFlag ==
    /\ Running("extract_arxiv")
    /\ insights' = Extracted(insights, messages.arxiv, "arxiv_processed", "arxiv_raw_response")
    /\ iteration_count' = iteration_count + 1
    /\ messages' = AddReducer(messages, messages)
    /\ pc' = "agent"
    /\ steps' = steps + 1
    /\ UNCHANGED <<complaint, examples, response, citations, decision, arxiv_complete,
                   tavily_complete, helpfulness_score, status, error, result, failed,
                   visit, composed>>
    /\ Checkpointed

\* extract_arxiv_results collecting the citations of the papers it merged
extract_arxiv_results_Citing ==
    /\ Running("extract_arxiv")
    /\ insights' = Extracted(insights, messages.arxiv, "arxiv_processed", "arxiv_raw_response")
    /\ citations' = citations \o insights'.papers
    /\ arxiv_complete' = TRUE
    /\ iteration_count' = iteration_count + 1
    /\ messages' = AddReducer(messages, messages)
    /\ pc' = "agent"
    /\ steps' = steps + 1
    /\ UNCHANGED <<complaint, examples, response, decision, tavily_complete,
                   helpfulness_score, status, error, result, failed,
                   visit, composed>>
    /\ Checkpointed

extract_arxiv_results ==
    /\ Running("extract_arxiv")
    /\ insights' = Extracted(insights, messages.arxiv, "arxiv_processed", "arxiv_raw_response")
    /\ arxiv_complete' = TRUE
    /\ iteration_count' = iteration_count + 1
    /\ messages' = AddReducer(messages, messages)
    /\ pc' = "agent"
    /\ steps' = steps + 1
    /\ UNCHANGED <<complaint, examples, response, citations, decision, tavily_complete,
                   helpfulness_score, status, error, result, failed,
                   visit, composed>>
    /\ Checkpointed

\* extract_tavily_results without the count of the cycle
extract_tavily_results_NoCount ==
    /\ Running("extract_tavily")
    /\ examples' = Extracted(examples, messages.tavily, "tavily_processed", "tavily_raw_response")
    /\ tavily_complete' = TRUE
    /\ messages' = AddReducer(messages, messages)
    /\ pc' = "agent"
    /\ steps' = steps + 1
    /\ UNCHANGED <<complaint, insights, response, citations, decision, arxiv_complete,
                   helpfulness_score, status, error, result, failed,
                   visit, composed, iteration_count>>
    /\ Checkpointed

\* extract_tavily_results completing the cycle on a payload only: an error
\* result leaves the flag as it was
extract_tavily_results_FlagOnSuccess ==
    /\ Running("extract_tavily")
    /\ examples' = Extracted(examples, messages.tavily, "tavily_processed", "tavily_raw_response")
    /\ tavily_complete' = IF "error" \in messages.tavily.content.dict.keys
                          THEN tavily_complete ELSE TRUE
    /\ iteration_count' = iteration_count + 1
    /\ messages' = AddReducer(messages, messages)
    /\ pc' = "agent"
    /\ steps' = steps + 1
    /\ UNCHANGED <<complaint, insights, response, citations, decision, arxiv_complete,
                   helpfulness_score, status, error, result, failed,
                   visit, composed>>
    /\ Checkpointed

extract_tavily_results ==
    /\ Running("extract_tavily")
    /\ examples' = Extracted(examples, messages.tavily, "tavily_processed", "tavily_raw_response")
    /\ tavily_complete' = TRUE
    /\ iteration_count' = iteration_count + 1
    /\ messages' = AddReducer(messages, messages)
    /\ pc' = "agent"
    /\ steps' = steps + 1
    /\ UNCHANGED <<complaint, insights, response, citations, decision, arxiv_complete,
                   helpfulness_score, status, error, result, failed,
                   visit, composed>>
    /\ Checkpointed

\* ---------------------------------------------------------------- node: action
\* route_action with the ceiling tested one cycle late
route_action_Above(arxiv, tavily, count) ==
    IF (arxiv /\ tavily) \/ count > MaxIterations THEN "compose" ELSE "agent"

\* route_action(state)
route_action(arxiv, tavily, count) ==
    IF (arxiv /\ tavily) \/ count >= MaxIterations THEN "compose" ELSE "agent"

\* route_action runs as the node (its string result is no state update) and
\* again as the node's router; "agent" is mapped to should_continue.
ActionStep ==
    /\ Running("action")
    /\ \/ Raise("invalid_update") /\ UNCHANGED failed
       \/   /\ pc' = IF route_action(arxiv_complete, tavily_complete, iteration_count) = "compose"
                     THEN "compose" ELSE "should_continue"
            /\ steps' = steps + 1
            /\ UNCHANGED <<channels, status, error, result, failed,
                           visit, composed>>
            /\ Checkpointed

\* -------------------------------------------------------- node: should_continue
\* should_continue with the length ceiling reached one message early
should_continue_AtTen(msgs, out) ==
    IF msgs.len >= MaxMessages THEN [verdict |-> "end", invoked |-> FALSE, score |-> 0]
    ELSE IF msgs.cand.type = "none" THEN [verdict |-> "continue", invoked |-> FALSE, score |-> 0]
    ELSE [verdict |-> IF check_helpfulness(msgs, out) >= HelpfulThreshold
                      THEN "end" ELSE "continue",
          invoked |-> TRUE,
          score |-> check_helpfulness(msgs, out)]

\* should_continue asking for a score also when there is nothing to score
should_continue_Scored(msgs, out) ==
    IF msgs.len > MaxMessages THEN [verdict |-> "end", invoked |-> FALSE, score |-> 0]
    ELSE [verdict |-> IF check_helpfulness(msgs, out) >= HelpfulThreshold
                      THEN "end" ELSE "continue",
          invoked |-> TRUE,
          score |-> check_helpfulness(msgs, out)]

\* should_continue(state), one invocation: the verdict, and the evaluator
\* invocation it made if it made one.  state["helpfulness_score"] = ... changes
\* the dict handed to the function, not the channel.
should_continue(msgs, out) ==
    IF msgs.len > MaxMessages THEN [verdict |-> "end", invoked |-> FALSE, score |-> 0]
    ELSE IF msgs.cand.type = "none" THEN [verdict |-> "continue", invoked |-> FALSE, score |-> 0]
    ELSE [verdict |-> IF check_helpfulness(msgs, out) >= HelpfulThreshold
                      THEN "end" ELSE "continue",
          invoked |-> TRUE,
          score |-> check_helpfulness(msgs, out)]

Visited(v, r, out) ==
    [scores |-> IF r.invoked THEN Append(v.scores, r.score) ELSE v.scores,
     last |-> IF r.invoked THEN out ELSE v.last,
     verdict |-> r.verdict]

\* should_continue invoked as the node: its string result is no state update.
ShouldContinueNode ==
    /\ Running("should_continue")
    /\ \E out \in EvalOutcomes :
          LET r == should_continue(messages, out)
          IN  /\ r.invoked \/ out = EvalRaised
              /\ UNCHANGED failed
              /\ \/ Raise("invalid_update")
                 \/   /\ visit' = Visited(NoVisit, r, out)
                      /\ pc' = "should_continue_router"
                      /\ steps' = steps + 1
                      /\ UNCHANGED <<channels, status, error, result, composed>>
                      /\ Checkpointed

\* should_continue invoked as the router of the same superstep.
ShouldContinueRouter ==
    /\ status = "running"
    /\ pc = "should_continue_router"
    /\ \E out \in EvalOutcomes :
          LET r == should_continue(messages, out)
          IN  /\ r.invoked \/ out = EvalRaised
              /\ UNCHANGED failed
              /\ visit' = Visited(visit, r, out)
              /\ pc' = IF r.verdict = "end" THEN "END" ELSE "agent"
              /\ UNCHANGED <<channels, steps, status, error, result, composed>>
              /\ Checkpointed

\* --------------------------------------------------------------- node: compose
\* compose_response(state)
compose_response ==
    /\ Running("compose")
    /\ \E out \in ComposerOutcomes :
          LET r == ResponseComposerTool_run(complaint, insights, examples, out)
          IN  /\ response' = r.response
              /\ citations' = r.citations
              /\ composed' = IF out.raised THEN "raised" ELSE "returned"
    /\ UNCHANGED failed
    /\ decision' = "end"
    /\ messages' = AddReducer(messages, messages)
    /\ pc' = "should_continue"
    /\ steps' = steps + 1
    /\ UNCHANGED <<complaint, insights, examples, iteration_count, arxiv_complete,
                   tavily_complete, helpfulness_score, status, error,
                   result, visit>>
    /\ Checkpointed

\* ----------------------------------------------------------- generate_response
\* _get_decision_reason(final_state)
_get_decision_reason(message_count, score) ==
    IF message_count > MaxMessages THEN "Reached maximum conversation length (10+ messages)"
    ELSE IF score >= HelpfulThreshold THEN "Response quality sufficient"
    ELSE "Workflow completed"

\* The reply extracted from the final state: the composed response, else the
\* content of the first hit of the reversed candidate scan, else "".
final_response(resp, msgs) ==
    IF resp # "" THEN resp
    ELSE IF msgs.cand.type # "none" THEN msgs.cand.content.text
    ELSE ""

\* generate_response after ainvoke returned the final state
Return ==
    /\ status = "running"
    /\ pc = "END"
    /\ status' = "returned"
    /\ result' = [reply |-> final_response(response, messages),
                  citations |-> citations,
                  iterations |-> iteration_count,
                  helpfulness_score |-> helpfulness_score,
                  message_count |-> messages.len,
                  decision_reason |-> _get_decision_reason(messages.len, helpfulness_score)]
    /\ UNCHANGED <<channels, pc, steps, error, failed, visit, composed, start_time, saver, run,
                  tavily_api_key, last_gate>>

\* The superstep budget is used up before the graph reached END.
GraphRecursionError ==
    /\ status = "running"
    /\ pc \notin {"END", "should_continue_router"}
    /\ steps >= RecursionLimit
    /\ Raise("recursion_limit")
    /\ UNCHANGED failed

Next ==
    \/ AgentStep
    \/ ArxivToolsStep
    \/ TavilyToolsStep
    \/ extract_arxiv_results
    \/ extract_tavily_results
    \/ ActionStep
    \/ ShouldContinueNode
    \/ ShouldContinueRouter
    \/ compose_response
    \/ Return
    \/ GraphRecursionError

Spec == Init /\ [][Next]_vars

\* ------------------------------------------------- route_action on every state
\* route_action reads three fields of the state it is handed and nothing else.
\* Here the node "action" is entered with every combination of the two flags
\* and every iteration_count up to MaxCount, after a first assistant turn
\* without tool calls.
InitRoute ==
    /\ messages = AddReducer(Empty, call_model(Empty, AIMessage(TRUE, <<>>, "")))
    /\ complaint = Complaint
    /\ insights = EmptyDict
    /\ examples = EmptyDict
    /\ response = ""
    /\ citations = <<>>
    /\ iteration_count \in 0..MaxCount
    /\ decision = "start"
    /\ arxiv_complete \in BOOLEAN
    /\ tavily_complete \in BOOLEAN
    /\ helpfulness_score = 0
    /\ pc = "action"
    /\ steps = 1
    /\ status = "running"
    /\ error = ""
    /\ result = NoResult
    /\ failed = {}
    /\ visit = NoVisit
    /\ composed = "none"
    /\ start_time = 0
    /\ saver = Put(EmptySaver, thread_id(0), messages)
    /\ run = 1
    /\ tavily_api_key = "tvly-key"
    /\ last_gate = NoGate

SpecRoute == InitRoute /\ [][ActionStep]_vars

\* --------------------------------------------- should_continue on every length
\* should_continue reads the length of the history and its newest candidate.
\* Here the gate is entered with a history of every length around the ceiling,
\* with and without a candidate turn (an assistant turn with tool calls went
\* before it when there is none).
GateLens == (MaxMessages - 1)..LenCap
GateHistory(n, c) ==
    [len |-> n, hasSystem |-> TRUE,
     first |-> [SystemMessage EXCEPT !.content = Text("")],
     last |-> c,
     cand |-> IF IsCandidate(c) THEN c ELSE NoMsg,
     arxiv |-> NoMsg, tavily |-> NoMsg]
InitGate ==
    /\ \E n \in GateLens, c \in {m \in DecisionMessages : m.tool_calls = <<>> /\ m.content.text # ""} :
          messages = GateHistory(n, c)
    /\ complaint = Complaint
    /\ insights = EmptyDict
    /\ examples = EmptyDict
    /\ response = ""
    /\ citations = <<>>
    /\ iteration_count = 0
    /\ decision = "start"
    /\ arxiv_complete = FALSE
    /\ tavily_complete = FALSE
    /\ helpfulness_score = 0
    /\ pc = "should_continue"
    /\ steps = 2
    /\ status = "running"
    /\ error = ""
    /\ result = NoResult
    /\ failed = {}
    /\ visit = NoVisit
    /\ composed = "none"
    /\ start_time = 0
    /\ saver = Put(EmptySaver, thread_id(0), messages)
    /\ run = 1
    /\ tavily_api_key = "tvly-key"
    /\ last_gate = NoGate

NextGate ==
    \/ ShouldContinueNode
    \/ ShouldContinueRouter

SpecGate == InitGate /\ [][NextGate]_vars

\* ------------------------------------------------------- the empty complaint
\* generate_response(""): the same initial_state with complaint "".
InitEmpty ==
    /\ messages = AddReducer(Empty, Empty)
    /\ complaint = ""
    /\ insights = EmptyDict
    /\ examples = EmptyDict
    /\ response = ""
    /\ citations = <<>>
    /\ iteration_count = 0
    /\ decision = "start"
    /\ arxiv_complete = FALSE
    /\ tavily_complete = FALSE
    /\ helpfulness_score = 0
    /\ pc = "agent"
    /\ steps = 0
    /\ status = "running"
    /\ error = ""
    /\ result = NoResult
    /\ failed = {}
    /\ visit = NoVisit
    /\ composed = "none"
    /\ start_time = 0
    /\ saver = Put(EmptySaver, thread_id(0), messages)
    /\ run = 1
    /\ tavily_api_key = "tvly-key"
    /\ last_gate = NoGate

SpecEmpty == InitEmpty /\ [][Next]_vars

\* ------------------------------------------- the engine without a search key
\* ReplySightAgent(): tavily_api_key is None; a run on it starts from the same
\* initial_state.
InitNoKey ==
    /\ messages = AddReducer(Empty, Empty)
    /\ complaint = Complaint
    /\ insights = EmptyDict
    /\ examples = EmptyDict
    /\ response = ""
    /\ citations = <<>>
    /\ iteration_count = 0
    /\ decision = "start"
    /\ arxiv_complete = FALSE
    /\ tavily_complete = FALSE
    /\ helpfulness_score = 0
    /\ pc = "agent"
    /\ steps = 0
    /\ status = "running"
    /\ error = ""
    /\ result = NoResult
    /\ failed = {}
    /\ visit = NoVisit
    /\ composed = "none"
    /\ start_time = 0
    /\ saver = Put(EmptySaver, thread_id(0), messages)
    /\ run = 1
    /\ tavily_api_key = ""
    /\ last_gate = NoGate

SpecNoKey == InitNoKey /\ [][Next]_vars

\* ------------------------------------------------ runs on the same engine
\* The engine is one object (one compiled graph, one MemorySaver) serving
\* every request.  Here a first run has returned: the decision model answered
\* the complaint directly and the evaluator accepted the answer.
PriorReply == "I am sorry to hear that; a replacement is on its way."
PriorHistory == AddReducer(Empty, call_model(Empty, AIMessage(FALSE, <<>>, PriorReply)))
PriorVisit ==
    LET out == EvalReturned(<<"1">>)
        r == should_continue(PriorHistory, out)
    IN  Visited(Visited(NoVisit, r, out), r, out)

InitRuns ==
    /\ messages = PriorHistory
    /\ complaint = Complaint
    /\ insights = EmptyDict
    /\ examples = EmptyDict
    /\ response = ""
    /\ citations = <<>>
    /\ iteration_count = 0
    /\ decision = "start"
    /\ arxiv_complete = FALSE
    /\ tavily_complete = FALSE
    /\ helpfulness_score = 0
    /\ pc = "END"
    /\ steps = 3
    /\ status = "returned"
    /\ error = ""
    /\ result = [reply |-> PriorReply, citations |-> <<>>, iterations |-> 0,
                 helpfulness_score |-> 0, message_count |-> 2,
                 decision_reason |-> "Workflow completed"]
    /\ failed = {}
    /\ visit = PriorVisit
    /\ composed = "none"
    /\ start_time = 0
    /\ saver = Put(EmptySaver, thread_id(0), PriorHistory)
    /\ run = 1
    /\ tavily_api_key = "tvly-key"
    /\ last_gate = [visited |-> TRUE, len |-> 2, agent |-> FALSE]

\* generate_response called again after a run returned: initial_state is the
\* input of an ainvoke on the thread named by the new start_time.  The channels
\* are loaded from the thread's checkpoint when it has one, then the input is
\* written: messages through its reducer, every other channel by replacement.
generate_response ==
    /\ status = "returned"
    /\ run < MaxRuns
    /\ run' = run + 1
    /\ tavily_api_key' = tavily_api_key
    /\ last_gate' = NoGate
    /\ \E t \in StartTimes :
          /\ t > start_time
          /\ start_time' = t
          /\ messages' = AddReducer(saver[thread_id(t)].messages, Empty)
          /\ saver' = Put(saver, thread_id(t), messages')
    /\ complaint' = Complaint
    /\ insights' = EmptyDict
    /\ examples' = EmptyDict
    /\ response' = ""
    /\ citations' = <<>>
    /\ iteration_count' = 0
    /\ decision' = "start"
    /\ arxiv_complete' = FALSE
    /\ tavily_complete' = FALSE
    /\ helpfulness_score' = 0
    /\ pc' = "agent"
    /\ steps' = 0
    /\ status' = "running"
    /\ error' = ""
    /\ result' = NoResult
    /\ failed' = {}
    /\ visit' = NoVisit
    /\ composed' = "none"

NextRuns ==
    \/ Next
    \/ generate_response

SpecRuns == InitRuns /\ [][NextRuns]_vars

\* ------------------------------------------------- the composer on every result
\* ResponseComposerTool._run reads insights['papers'] and examples['examples'].
\* Here COMPOSE is entered after one cycle of each adapter with every answer
\* the upstream services can give to a successful request: arXiv's body with
\* and without an entry, and every list of up to MaxResults results of the
\* search service, each with a url or without one ("").
Urls == {"", "https://example.com/a", "https://example.com/b"}
ResultLists == UNION {[1..n -> Urls] : n \in 0..MaxResults}
ComposeHistory(entry, results) ==
    LET h1 == AddReducer(Empty, call_model(Empty, AIMessage(TRUE, <<ArxivName>>, "")))
        h2 == AddReducer(h1, ToolNode(ArxivName, <<ArxivName>>,
                  <<ArxivInsightsTool_arun(Upstream("ok", entry, <<>>, FALSE))>>))
        h3 == AddReducer(h2, h2)
        h4 == AddReducer(h3, call_model(h3, AIMessage(TRUE, <<TavilyName>>, "")))
        h5 == AddReducer(h4, ToolNode(TavilyName, <<TavilyName>>,
                  <<TavilyExamplesTool_arun(EngineApiKey("tvly-key"),
                                            Upstream("ok", FALSE, results, FALSE))>>))
        h6 == AddReducer(h5, h5)
    IN  AddReducer(h6, call_model(h6, AIMessage(TRUE, <<>>, PriorReply)))

InitCompose ==
    /\ \E entry \in BOOLEAN, results \in ResultLists :
          /\ messages = ComposeHistory(entry, results)
          /\ insights = Extracted(EmptyDict, messages.arxiv,
                                  "arxiv_processed", "arxiv_raw_response")
          /\ examples = Extracted(EmptyDict, messages.tavily,
                                  "tavily_processed", "tavily_raw_response")
    /\ complaint = Complaint
    /\ response = ""
    /\ citations = <<>>
    /\ iteration_count = 2
    /\ decision = "start"
    /\ arxiv_complete = TRUE
    /\ tavily_complete = TRUE
    /\ helpfulness_score = 0
    /\ pc = "compose"
    /\ steps = 8
    /\ status = "running"
    /\ error = ""
    /\ result = NoResult
    /\ failed = {}
    /\ visit = NoVisit
    /\ composed = "none"
    /\ start_time = 0
    /\ saver = Put(EmptySaver, thread_id(0), messages)
    /\ run = 1
    /\ tavily_api_key = "tvly-key"
    /\ last_gate = NoGate

SpecCompose == InitCompose /\ [][compose_response]_vars

\* ------------------------------------------ turns that repeat a tool call
\* The decision model is bound to both tools and names, in one turn, any
\* sequence of calls: here every sequence of up to MaxToolCalls calls, the
\* same tool named twice included (two queries for one adapter).  The tool
\* node is handed the whole turn and serves every call to its tool; it runs
\* the calls of one turn together, not one after the other.
AllCallSeqs == UNION {[1..n -> ToolNames] : n \in 1..MaxToolCalls}
ResearchTurns == {AIMessage(TRUE, c, "") : c \in AllCallSeqs}
Invocations(tool, calls) == Cardinality({i \in 1..Len(calls) : calls[i] = tool})

NextResearch ==
    \/ AgentStepOn(ResearchTurns)
    \/ ArxivToolsStep
    \/ TavilyToolsStep
    \/ extract_arxiv_results
    \/ extract_tavily_results
    \/ GraphRecursionError

SpecResearch == Init /\ [][NextResearch]_vars

\* ------------------------------------------------------------ introspection
\* _build_graph: the edges added to the workflow; a conditional edge stands
\* for one edge to each target of its path map.
workflow_edges ==
    {<<"START", "agent">>,
     <<"agent", "arxiv_tools">>, <<"agent", "tavily_tools">>, <<"agent", "action">>,
     <<"action", "compose">>, <<"action", "should_continue">>,
     <<"should_continue", "agent">>, <<"should_continue", "END">>,
     <<"arxiv_tools", "extract_arxiv">>, <<"tavily_tools", "extract_tavily">>,
     <<"extract_arxiv", "agent">>, <<"extract_tavily", "agent">>,
     <<"compose", "should_continue">>}

\* The nodes of the graph object: START, END and the nodes added.
workflow_nodes == {e[1] : e \in workflow_edges} \cup {e[2] : e \in workflow_edges}

\* "execution_flow" without the gate's way back to the agent
execution_flow_NoLoop ==
    << <<"START", "agent">>,
       <<"agent", "arxiv_tools">>,
       <<"agent", "tavily_tools">>,
       <<"agent", "action">>,
       <<"action", "compose">>,
       <<"action", "should_continue">>,
       <<"should_continue", "end">>,
       <<"arxiv_tools", "extract_arxiv", "agent">>,
       <<"tavily_tools", "extract_tavily", "agent">>,
       <<"compose", "should_continue">> >>

\* "execution_flow": the literal list of get_graph_metadata, each line as the
\* chain of names it joins with arrows (the remarks in parentheses dropped).
execution_flow ==
    << <<"START", "agent">>,
       <<"agent", "arxiv_tools">>,
       <<"agent", "tavily_tools">>,
       <<"agent", "action">>,
       <<"action", "compose">>,
       <<"action", "should_continue">>,
       <<"should_continue", "continue">>,
       <<"should_continue", "end">>,
       <<"arxiv_tools", "extract_arxiv", "agent">>,
       <<"tavily_tools", "extract_tavily", "agent">>,
       <<"compose", "should_continue">> >>

\* get_graph_metadata(): nodes and edges are read off the compiled graph,
\* execution_flow and has_cycles are literals.
get_graph_metadata ==
    [nodes |-> workflow_nodes,
     edges |-> workflow_edges,
     execution_flow |-> execution_flow,
     has_cycles |-> TRUE]

\* -------------------------------------------------------------------- claims
\* C1: every generate_response run reaches END after a bounded number of
\* transitions, whatever the decision model requests: no run is still short of
\* END when the superstep budget of its invocation is used up.
C1_RunReachesEnd == ~(status = "raised" /\ error = "recursion_limit")

\* C2: iteration_count never exceeds 4 in any reachable state.
C2_IterationCeiling == iteration_count <= MaxIterations

\* C3: while a run has not reached END, len(messages) is at most 11.
C3_HistoryCeiling == (status = "running" /\ pc # "END") => messages.len <= MaxMessages + 1

\* C4: for a non-empty complaint, a run that reached END returns a non-empty
\* reply.
C4_NonEmptyReply == (status = "returned" /\ complaint # "") => result.reply # ""

\* C5: no failure of a subsystem call (decision model, adapter, evaluator,
\* composer) makes generate_response raise.
C5_FailureAbsorbed == status = "raised" => error \notin {"decision_model", "tool_error"}

\* C6: when a retrieval adapter call failed with a network error, the run still
\* ends by returning, and insights / examples carry an error marker for that
\* adapter in the final state.
ErrorMarker(d) == "error" \in d.keys \/ d.raw = "error_text"
C6_AdapterFailureAbsorbed ==
    (failed # {} /\ status # "running") =>
        /\ status = "returned"
        /\ ArxivName \in failed => ErrorMarker(insights)
        /\ TavilyName \in failed => ErrorMarker(examples)

\* C7: no invocation of a retrieval adapter raises, whatever the upstream does.
C7_AdapterNeverRaises == failed = {}

\* C8: when the composer's language-model invocation fails, the composed
\* response is the fixed, non-empty fallback template (the citation list it
\* comes with is empty).
C8_ComposerFallback ==
    composed = "raised" => (response = FallbackReply /\ response # "" /\ citations = <<>>)

\* C8 witness: a failed composer invocation with research gathered.
C8_Witness == composed = "raised" /\ insights.papers # <<>> /\ pc = "should_continue"

\* C9: every score an evaluator invocation yields is in [0.0, 1.0]; a failed
\* invocation and an output without a digit yield exactly 0.5; 17 is clamped
\* to 1.0, 0.7 is 0.7 and 1.7 is clamped to 1.0.
LastScore == visit.scores[Len(visit.scores)]
C9_ScoreInRange ==
    /\ helpfulness_score \in ScoreMin..ScoreMax
    /\ \A i \in 1..Len(visit.scores) : visit.scores[i] \in ScoreMin..ScoreMax
    /\ visit.scores # <<>> =>
        /\ visit.last.raised => LastScore = 500
        /\ (~visit.last.raised /\ \A i \in 1..Len(visit.last.text) :
                                     visit.last.text[i] \in {".", "x"}) => LastScore = 500
        /\ visit.last = EvalReturned(<<"1", "7">>) => LastScore = 1000
        /\ visit.last = EvalReturned(<<"0", ".", "7">>) => LastScore = 700
        /\ visit.last = EvalReturned(<<"1", ".", "7">>) => LastScore = 1000
        /\ visit.last = EvalReturned(<<"x", "0", ".">>) => LastScore = 0
        /\ visit.last = EvalReturned(<<".", "0", "1">>) => LastScore = 1000
        /\ visit.last = EvalReturned(<<"0", ".", "1">>) => LastScore = 100

\* C9 witness: the evaluator answered 17 at a gate visit.
C9_Witness == visit.scores # <<>> /\ visit.last = EvalReturned(<<"1", "7">>)

\* C10: whenever an evaluator invocation of a should_continue visit returned
\* a score >= 0.7, the visit ends at END.
Accepted(v) == \E i \in 1..Len(v.scores) : v.scores[i] >= HelpfulThreshold
C10_AcceptEndsVisit ==
    (status = "running" /\ pc # "should_continue_router" /\ Accepted(visit)) => pc = "END"

\* C11: a step that leaves ROUTE_ACTION goes to COMPOSE exactly when both
\* research flags are true or iteration_count >= 4, and to QUALITY_GATE
\* otherwise; it goes nowhere else.
C11_RouteExact ==
    [][(pc = "action" /\ pc' # "action") =>
          /\ pc' \in {"compose", "should_continue"}
          /\ pc' = "compose" <=>
                ((arxiv_complete /\ tavily_complete) \/ iteration_count >= MaxIterations)]_vars

\* C11 witness: COMPOSE entered with both flags false and iteration_count = 4.
C11_Witness ==
    pc = "compose" /\ ~arxiv_complete /\ ~tavily_complete /\ iteration_count = MaxIterations

\* C12: a run called with an empty complaint is rejected before it starts: no
\* node runs for it, so no decision-model, adapter, evaluator or composer call
\* is made, and it returns no reply.
C12_EmptyRejected ==
    complaint = "" => (steps = 0 /\ status # "returned" /\ error # "decision_model")

\* C13: a run that starts on an engine that has served another run has its
\* own thread token (no checkpoint of an earlier run is kept under it) and
\* starts from an empty history.
C13_RunsIsolated ==
    [][(status # "running" /\ status' = "running") =>
          (~saver[thread_id(start_time')].exists /\ messages' = Empty)]_vars

\* C14: the history of one run is append-only: no step makes it shorter, and
\* what it already holds stays where it is (its first entry stays the first,
\* a system instruction, a candidate turn and an adapter result once in the
\* history stay in it).
C14_AppendOnly ==
    [][/\ messages'.len >= messages.len
       /\ messages.len > 0 => messages'.first = messages.first
       /\ messages.hasSystem => messages'.hasSystem
       /\ messages.cand.type # "none" => messages'.cand.type # "none"
       /\ messages.arxiv.type # "none" => messages'.arxiv.type # "none"
       /\ messages.tavily.type # "none" => messages'.tavily.type # "none"]_vars

\* C14 witness: a history that an adapter step and an assistant turn were added to.
C14_Witness ==
    /\ messages.first.type = "system"
    /\ messages.arxiv.type = "tool"
    /\ messages.last.type = "ai"
    /\ messages.len > 3

\* C15: a run that returns its result has invoked both retrieval adapters at
\* least once (each adapter's cycle was completed in the run).
C15_BothAdaptersInvoked == status = "returned" => (arxiv_complete /\ tavily_complete)

\* C16: every run that completes returns a citation list with at least one
\* entry.
C16_CitationsReturned == status = "returned" => result.citations # <<>>

\* C17: the description returned by get_graph_metadata matches the engine's
\* transition table: the edges its execution_flow names (the gate's labels
\* "continue" and "end" read as the nodes they lead to) and the edges it lists
\* are exactly the edges of the workflow, has_cycles is true exactly when
\* these edges form a cycle, and every step a run takes from one node to
\* another follows a described edge.
Target(name) == IF name = "continue" THEN "agent" ELSE IF name = "end" THEN "END" ELSE name
FlowEdges(flow) ==
    {<<Target(flow[i][k]), Target(flow[i][k + 1])>> :
        <<i, k>> \in {x \in (1..Len(flow)) \X (1..2) : x[2] < Len(flow[x[1]])}}
RECURSIVE ReachFrom(_, _)
ReachFrom(E, S) ==
    LET T == S \cup {e[2] : e \in {d \in E : d[1] \in S}}
    IN  IF T = S THEN S ELSE ReachFrom(E, T)
HasCycle(E) ==
    \E n \in {e[1] : e \in E} : n \in ReachFrom(E, {e[2] : e \in {d \in E : d[1] = n}})
NodeAt(p) == IF p = "should_continue_router" THEN "should_continue" ELSE p
C17_MetadataMatches ==
    /\ [](/\ FlowEdges(get_graph_metadata.execution_flow) = workflow_edges
          /\ get_graph_metadata.edges = workflow_edges
          /\ get_graph_metadata.has_cycles <=> HasCycle(workflow_edges))
    /\ [][NodeAt(pc') # NodeAt(pc) =>
             /\ <<NodeAt(pc), NodeAt(pc')>> \in FlowEdges(get_graph_metadata.execution_flow)
             /\ <<NodeAt(pc), NodeAt(pc')>> \in get_graph_metadata.edges]_vars

\* C17 witness: a run at END after both retrieval cycles, a composition and
\* the gate: it has gone through every described edge of the research loop,
\* the composition and the exit.
C17_Witness ==
    /\ pc = "END"
    /\ status = "running"
    /\ arxiv_complete
    /\ tavily_complete
    /\ composed # "none"

\* C18: a decision turn that requests retrieval is routed to the one adapter
\* node named by its first tool call, however many tools it requests, and a
\* turn that requests none goes to ROUTE_ACTION; the adapter node then invokes
\* its own adapter only (a call for the other adapter is answered with an
\* error text, no result) and hands over to its own extraction step.
NodeOfTool(name) == IF name = ArxivName THEN "arxiv_tools" ELSE "tavily_tools"
NoResultFor(old, new) == new = old \/ new.content.kind = "error_text"
C19_LengthCeiling ==
    [][(pc = "should_continue_router" /\ pc' # pc) =>
          /\ messages.len > MaxMessages => (pc' = "END" /\ visit'.scores = <<>>)
          /\ (messages.len <= MaxMessages /\ pc' = "END") =>
                /\ visit'.scores # <<>>
                /\ visit'.scores[Len(visit'.scores)] >= HelpfulThreshold]_vars

\* C19 witness: a gate visit at 11 entries, with a candidate, ended at END
\* without a score.
C19_Witness ==
    /\ pc = "END"
    /\ messages.len = MaxMessages + 1
    /\ messages.cand.type = "ai"
    /\ visit.scores = <<>>
    /\ visit.verdict = "end"

\* C20: a gate visit with len(history) <= 10 and no candidate turn goes to
\* AGENT_DECIDE without an evaluator invocation, and helpfulness_score keeps
\* its value (0.0 as long as no evaluator has run).
C20_NoCandidateContinues ==
    [][(pc = "should_continue_router" /\ pc' # pc /\ messages.len <= MaxMessages
            /\ messages.cand.type = "none") =>
          /\ pc' = "agent"
          /\ visit'.scores = <<>>
          /\ helpfulness_score' = helpfulness_score
          /\ helpfulness_score' = 0]_vars

\* C20 witness: the gate was visited without a candidate and sent the run
\* back to the agent.
C20_Witness ==
    /\ pc = "agent"
    /\ steps > 0
    /\ visit.verdict = "continue"
    /\ visit.scores = <<>>
    /\ messages.cand.type = "none"
    /\ messages.len <= MaxMessages

\* C21: a run that went through COMPOSE is accepted at END only on an
\* evaluator score >= 0.7 given to the composed reply: the gate visit that
\* follows COMPOSE took a score, the score is >= 0.7, and the candidate the
\* evaluator was handed (the newest candidate turn of the history) is the
\* composed response.
C21_ComposedReplyScored ==
    (status = "running" /\ pc = "END" /\ composed # "none") =>
        /\ visit.scores # <<>>
        /\ visit.scores[Len(visit.scores)] >= HelpfulThreshold
        /\ messages.cand.content.text = response

\* C22: at a gate visit the candidate found by the scan is the most recent
\* assistant turn without tool calls: when the newest entry of the history is
\* an assistant turn that carries no tool call, the scan yields that turn, and
\* the turn the scan yields never carries a tool call.
C22_CandidateIsLatestReply ==
    pc \in {"should_continue", "should_continue_router"} =>
        /\ (messages.last.type = "ai" /\ messages.last.tool_calls = <<>>) =>
              messages.cand = messages.last
        /\ messages.cand.type # "none" =>
              (messages.cand.type = "ai" /\ messages.cand.tool_calls = <<>>)

ErrorResult(m) == m.type = "tool" /\ m.content.kind = "json" /\ "error" \in m.content.dict.keys
Requested(name, calls) == \E i \in 1..Len(calls) : calls[i] = name
C24_ErrorCycleCompleted ==
    [][/\ (pc = "tavily_tools" /\ messages' # messages /\ ErrorResult(messages'.tavily)) =>
               (status' = "running" /\ pc' = "extract_tavily")
       /\ (pc = "extract_tavily" /\ pc' # pc /\ ErrorResult(messages.tavily)) =>
               (tavily_complete' /\ pc' = "agent" /\ status' = "running")
       /\ (pc' = "tavily_tools" /\ pc # pc') =>
               (pc = "agent" /\ Requested(TavilyName, messages'.last.tool_calls))
       /\ (pc' = "arxiv_tools" /\ pc # pc') =>
               (pc = "agent" /\ Requested(ArxivName, messages'.last.tool_calls))]_vars

\* C24 witness: the cycle of an error result is completed and the decision
\* model is asked again.
C24_Witness ==
    /\ pc = "agent"
    /\ status = "running"
    /\ tavily_complete
    /\ ErrorResult(messages.tavily)
    /\ "error" \in examples.keys

\* C25: both flags are false when a run starts.  A flag changes only in the
\* extraction step of its adapter, to true, and in that step the newest result
\* of the adapter is in the mapping afterwards (the keys of a payload or of an
\* error dict, or the raw text of a result that could not be read) and the
\* other flag keeps its value.  The extraction step is entered only from the
\* adapter's tool node, which ran on a turn that requested the adapter.
Merged(d, m, processed_key) ==
    /\ m.type = "tool"
    /\ processed_key \in d.keys
    /\ IF m.content.kind = "json" THEN m.content.dict.keys \subseteq d.keys
       ELSE d.raw = m.content.kind
C25_FlagMeansMerged ==
    /\ [](steps = 0 => (~arxiv_complete /\ ~tavily_complete))
    /\ [][/\ (pc' = "extract_arxiv" /\ pc # pc') =>
                /\ pc = "arxiv_tools"
                /\ Requested(ArxivName, messages.last.tool_calls)
                /\ messages'.arxiv.type = "tool"
          /\ (pc' = "extract_tavily" /\ pc # pc') =>
                /\ pc = "tavily_tools"
                /\ Requested(TavilyName, messages.last.tool_calls)
                /\ messages'.tavily.type = "tool"
          /\ arxiv_complete' # arxiv_complete =>
                /\ pc = "extract_arxiv"
                /\ arxiv_complete'
                /\ Merged(insights', messages.arxiv, "arxiv_processed")
                /\ tavily_complete' = tavily_complete
          /\ tavily_complete' # tavily_complete =>
                /\ pc = "extract_tavily"
                /\ tavily_complete'
                /\ Merged(examples', messages.tavily, "tavily_processed")
                /\ arxiv_complete' = arxiv_complete]_vars

\* C25 witness: the academic cycle is completed on an error text, the
\* best-practice flag is still false.
C25_Witness ==
    /\ pc = "agent"
    /\ arxiv_complete
    /\ ~tavily_complete
    /\ insights.raw = "error_text"
    /\ "arxiv_processed" \in insights.keys

\* C26: the result a run returns holds the state's citations, and as reply
\* the composed response when there is one, otherwise the content of the most
\* recent assistant turn of the history (at END the newest entry of the
\* history).
C26_ResultExtracted ==
    (status = "returned" /\ messages.last.type = "ai") =>
        /\ result.citations = citations
        /\ result.reply = IF response # "" THEN response ELSE messages.last.content.text

\* C27: at a gate visit with len(history) <= 10 and a candidate, when an
\* evaluator invocation of the visit raised or returned a text without a
\* number, the visit goes to AGENT_DECIDE, not to END.
Unparsed(out) == out.raised \/ \A i \in 1..Len(out.text) : out.text[i] \notin Digits
C27_FailOpenContinues ==
    [][(pc = "should_continue_router" /\ pc' # pc /\ messages.len <= MaxMessages
            /\ messages.cand.type # "none"
            /\ (Unparsed(visit.last) \/ Unparsed(visit'.last))) =>
          pc' = "agent"]_vars

\* C28: the citation list the composer built holds at most two identifiers
\* of the academic source followed by at most two of the best-practice source,
\* no empty entry, and no identifier twice.
Range(seq) == {seq[i] : i \in 1..Len(seq)}
C28_CitationsDistinct ==
    composed = "returned" =>
        /\ \E k \in 0..Len(citations) :
              /\ k <= CitationsPerSource
              /\ Len(citations) - k <= CitationsPerSource
              /\ \A i \in 1..k : citations[i] \in Range(insights.papers)
              /\ \A i \in (k + 1)..Len(citations) : citations[i] \in Range(examples.examples)
        /\ \A i \in 1..Len(citations) : citations[i] # ""
        /\ \A i, j \in 1..Len(citations) : citations[i] = citations[j] => i = j

\* C29: an extraction step keeps every key its mapping had before the step,
\* adds the keys of the adapter's result when the result is a payload, and
\* leaves the other mapping as it is.
C29_MergedNotReplaced ==
    [][/\ (pc = "extract_arxiv" /\ pc' = "agent") =>
             /\ insights.keys \subseteq insights'.keys
             /\ messages.arxiv.content.kind = "json" =>
                   messages.arxiv.content.dict.keys \subseteq insights'.keys
             /\ examples' = examples
       /\ (pc = "extract_tavily" /\ pc' = "agent") =>
             /\ examples.keys \subseteq examples'.keys
             /\ messages.tavily.content.kind = "json" =>
                   messages.tavily.content.dict.keys \subseteq examples'.keys
             /\ insights' = insights]_vars

\* C29 witness: a second best-practice cycle brought a payload after the first
\* had brought an error dict; the mapping holds the keys of both, next to
\* what the academic cycle left in the other mapping.
C29_Witness ==
    /\ pc = "agent"
    /\ {"error", "examples", "query", "source"} \subseteq examples.keys
    /\ "papers" \in insights.keys
    /\ iteration_count = 3

\* C30: response and citations are "" and [] as long as the composer has not
\* run, and a step changes either of them only if it is the COMPOSE step.
C30_OnlyComposerWrites ==
    /\ [](composed = "none" => (response = "" /\ citations = <<>>))
    /\ [][(response' # response \/ citations' # citations) =>
             (pc = "compose" /\ pc' = "should_continue" /\ composed' # "none")]_vars

\* C30 witness: the composer has run and left a reply and a citation.
C30_Witness ==
    /\ composed = "returned"
    /\ response # ""
    /\ citations # <<>>
    /\ pc = "should_continue"

\* C31: the best-practice adapter called without a credential, or answered
\* with a rejection, returns a dict with an 'error' entry and does not raise;
\* and on an engine constructed without a search key no invocation of the
\* adapter raises and each returns such an error result.
C31_CredentialErrorExplicit ==
    /\ \A key \in ApiKeys :
          LET r == TavilyExamplesTool_arun(key, Upstream("rejected", FALSE, <<>>, FALSE))
          IN  ~r.raised /\ "error" \in r.dict.keys
    /\ \A up \in TavilyUpstreams :
          LET r == TavilyExamplesTool_arun("", up)
          IN  ~r.raised /\ "error" \in r.dict.keys
    /\ tavily_api_key = "" =>
          /\ TavilyName \notin failed
          /\ pc = "extract_tavily" => ErrorResult(messages.tavily)

\* C32: a run is one thread of control that makes one external call at a
\* time: the node about to run issues at most one call.  The agent, the
\* composer and each invocation of the gate issue one; a tool node issues one
\* invocation of its adapter per call to it in the turn it is handed, so the
\* turn must hold at most one.
C32_OneCallAtATime ==
    /\ pc = "arxiv_tools" => Invocations(ArxivName, messages.last.tool_calls) <= 1
    /\ pc = "tavily_tools" => Invocations(TavilyName, messages.last.tool_calls) <= 1

\* C33: once generate_response has taken the reply out of the final state,
\* the state of that run is gone: the checkpointer holds no checkpoint under
\* the run's thread_id.
C33_StateDestroyed ==
    status = "returned" => ~saver[thread_id(start_time)].exists

\* C34: a visit to should_continue invokes the evaluator at most once, and
\* the verdict the visit leaves with is the one that invocation's score gives.
C34_OneEvaluationPerVisit ==
    /\ Len(visit.scores) <= 1
    /\ (pc # "should_continue_router" /\ Len(visit.scores) >= 1) =>
          visit.verdict = IF visit.scores[1] >= HelpfulThreshold THEN "end" ELSE "continue"

\* C35: a step of the node agent makes the history longer by one message (by
\* two when the history was empty: the system message and the answer), and a
\* step of extract_arxiv, extract_tavily, action, should_continue or compose
\* leaves its length as it was: no step adds what the history already holds.
C35_NoDuplicatedHistory ==
    [][/\ (pc = "agent" /\ pc' # "agent" /\ status' = "running") =>
             messages'.len = messages.len + (IF messages.len = 0 THEN 2 ELSE 1)
       /\ (/\ pc \in {"extract_arxiv", "extract_tavily", "action", "should_continue",
                      "should_continue_router", "compose"}
           /\ pc' # pc
           /\ status' = "running") =>
             messages'.len = messages.len]_vars

\* C36: between two visits to should_continue that follow one another in a
\* run the node agent has run, and the history is longer at the later visit
\* than it was at the earlier one.
C36_GateLoopGrows ==
    (status = "running" /\ pc = "should_continue" /\ last_gate.visited) =>
        /\ last_gate.agent
        /\ messages.len > last_gate.len

\* C36 witness: the gate is reached a second time, after the agent ran again.
C36_Witness ==
    /\ status = "running"
    /\ pc = "should_continue"
    /\ last_gate.visited
    /\ last_gate.agent
    /\ messages.len > last_gate.len

\* C37: a run that has reached END has more than 10 messages or a
\* helpfulness_score of at least 0.7 in its final state, so the
\* decision_reason generate_response reports is never "Workflow completed".
C37_EndHasReason ==
    /\ (status = "running" /\ pc = "END") =>
          (messages.len > MaxMessages \/ helpfulness_score >= HelpfulThreshold)
    /\ status = "returned" => result.decision_reason # "Workflow completed"

\* C38: in every state of a run iteration_count is 0 exactly when neither
\* research flag is set (so no state has both flags false and
\* iteration_count = 4).
C38_CountZeroIffNoFlag ==
    (iteration_count = 0) <=> (~arxiv_complete /\ ~tavily_complete)

\* C38 witness: two cycles counted, all for arxiv_insights: one flag is set,
\* the other is not.
C38_Witness ==
    /\ status = "running"
    /\ iteration_count >= 2
    /\ arxiv_complete
    /\ ~tavily_complete

====
